---------------------------- MODULE Spec2Model ----------------------------
(***************************************************************************)
(* A model of src/app.py: the /get_suggestions request handler, the two    *)
(* model calls it makes (fetch_next_words, fetch_next_phrases) and the      *)
(* parser that pairs words with phrases (parse_suggestions).                *)
(*                                                                          *)
(* A Python str is a sequence of characters.  A character is a one-letter   *)
(* TLA+ string, except two code points written by name because str.lower()  *)
(* maps the first to the two-character string "i" + the second:             *)
(*   "U+0130"  LATIN CAPITAL LETTER I WITH DOT ABOVE                        *)
(*   "U+0307"  COMBINING DOT ABOVE                                          *)
(* A Python Optional is a sequence of length 0 (None) or 1.                 *)
(***************************************************************************)
EXTENDS Integers, Sequences, FiniteSets

VARIABLES pc, typed_text, reply, text, next_words, phrase_data,
          suggestions, response, calls

vars == <<pc, typed_text, reply, text, next_words, phrase_data,
          suggestions, response, calls>>

---------------------------------------------------------------------------
(* Python str and list operations used by the code *)

Chars(s) == [i \in 1..Len(s) |-> SubSeq(s, i, i)]

Whitespace == {" ", "\t", "\n", "\r"}

Digits == {"0", "1", "2", "3", "4", "5", "6", "7", "8", "9"}

UpperCase == Chars("ABCDEFGHIJKLMNOPQRSTUVWXYZ")

LowerCase == Chars("abcdefghijklmnopqrstuvwxyz")

None == <<>>

Some(v) == <<v>>

SetMin(S) == CHOOSE x \in S : \A y \in S : x <= y

SetMax(S) == CHOOSE x \in S : \A y \in S : y <= x

\* s.strip()
strip(s) ==
    LET keep == {i \in 1..Len(s) : s[i] \notin Whitespace}
    IN  IF keep = {} THEN <<>> ELSE SubSeq(s, SetMin(keep), SetMax(keep))

\* s.split(sep, maxsplit) for a one-character sep; maxsplit = -1 is unlimited
RECURSIVE split(_, _, _)
split(s, sep, maxsplit) ==
    LET at == {i \in 1..Len(s) : s[i] = sep}
    IN  IF at = {} \/ maxsplit = 0
        THEN <<s>>
        ELSE LET i == SetMin(at)
             IN  <<SubSeq(s, 1, i - 1)>>
                 \o split(SubSeq(s, i + 1, Len(s)), sep,
                          IF maxsplit < 0 THEN maxsplit ELSE maxsplit - 1)

\* s.isdigit()
isdigit(s) == s # <<>> /\ \A i \in 1..Len(s) : s[i] \in Digits

\* c.lower() for one character: a string, of two characters for U+0130
lower_char(c) ==
    IF c = "U+0130" THEN <<"i", "U+0307">>
    ELSE IF \E k \in 1..Len(UpperCase) : UpperCase[k] = c
         THEN <<LowerCase[CHOOSE k \in 1..Len(UpperCase) : UpperCase[k] = c]>>
         ELSE <<c>>

\* s.lower()
RECURSIVE lower(_)
lower(s) == IF s = <<>> THEN <<>> ELSE lower_char(Head(s)) \o lower(Tail(s))

\* s.startswith(prefix)
startswith(s, prefix) ==
    Len(prefix) <= Len(s) /\ SubSeq(s, 1, Len(prefix)) = prefix

\* s.endswith(suffix)
endswith(s, suffix) ==
    Len(suffix) <= Len(s) /\ SubSeq(s, Len(s) - Len(suffix) + 1, Len(s)) = suffix

\* sep.join(parts)
RECURSIVE join(_, _)
join(sep, parts) ==
    IF parts = <<>> THEN <<>>
    ELSE IF Len(parts) = 1 THEN parts[1]
    ELSE parts[1] \o sep \o join(sep, Tail(parts))

\* str(n) for n >= 0, as in f"{i + 1}"
RECURSIVE str(_)
str(n) ==
    LET d == <<CHOOSE c \in Digits : Chars("0123456789")[(n % 10) + 1] = c>>
    IN  IF n < 10 THEN d ELSE str(n \div 10) \o d

\* `not x` for an Optional[str] or a list: None and the empty value are falsy
falsy(x) == x = None \/ x = Some(<<>>)

---------------------------------------------------------------------------
(* The functions of src/app.py *)

\* What model.generate_content / response.text does: raise, or give a text
Raises == [raises |-> TRUE, text |-> <<>>]

Returns(t) == [raises |-> FALSE, text |-> t]

\* _call_gemini: the stripped response text, or None when anything raised
call_gemini(r) == IF r.raises THEN None ELSE Some(strip(r.text))

\* The loop of fetch_next_words without its isdigit() test
RECURSIVE parsed_words_unnumbered(_)
parsed_words_unnumbered(lines) ==
    IF lines = <<>> THEN <<>>
    ELSE LET line  == strip(Head(lines))
             parts == split(line, ".", 1)
         IN  (IF line # <<>> /\ Len(parts) = 2
              THEN <<strip(parts[2])>>
              ELSE <<>>)
             \o parsed_words_unnumbered(Tail(lines))

\* fetch_next_words, the loop over the lines of the response
RECURSIVE parsed_words(_)
parsed_words(lines) ==
    IF lines = <<>> THEN <<>>
    ELSE LET line  == strip(Head(lines))
             parts == split(line, ".", 1)
         IN  (IF line # <<>> /\ Len(parts) = 2 /\ isdigit(strip(parts[1]))
              THEN <<strip(parts[2])>>
              ELSE <<>>)
             \o parsed_words(Tail(lines))

\* fetch_next_words, the filter of the return statement
single_word(word) == word # <<>> /\ Len(split(word, " ", -1)) = 1

\* fetch_next_words, given what _call_gemini returned
fetch_next_words(t) ==
    IF falsy(t) THEN <<>>
    ELSE SelectSeq(parsed_words(split(t[1], "\n", -1)), single_word)

\* fetch_next_phrases, the numbered echo of the word list
word_list(words) ==
    join(<<"\n">>, [i \in 1..Len(words) |-> str(i) \o Chars(". ") \o words[i]])

\* fetch_next_phrases testing `phrases_text is None` instead of `not phrases_text`
fetch_next_phrases_none_only(words, t) ==
    IF t = None THEN None
    ELSE Some([words_text |-> word_list(words), phrases_text |-> t[1]])

\* fetch_next_phrases, given what _call_gemini returned
fetch_next_phrases(words, t) ==
    IF falsy(t) THEN None
    ELSE Some([words_text |-> word_list(words), phrases_text |-> t[1]])

\* parse_suggestions, the loop over the lines of phrases_text
RECURSIVE parsed_phrases(_)
parsed_phrases(lines) ==
    IF lines = <<>> THEN <<>>
    ELSE LET line  == strip(Head(lines))
             parts == split(line, ".", 1)
         IN  (IF line # <<>> /\ Len(parts) = 2 /\ isdigit(strip(parts[1]))
              THEN <<strip(parts[2])>>
              ELSE <<>>)
             \o parsed_phrases(Tail(lines))

\* parse_suggestions, the fallback phrase
Fallback == Chars("...")

\* parse_suggestions, the cap of the returned slice
MaxSuggestions == 10

\* The phrase lookup shifted by one position
phrase_at_shifted(phrases, i) ==
    IF i >= Len(phrases) THEN Fallback ELSE phrases[i + 1]

\* parse_suggestions, the phrase chosen for the word at 1-based position i
phrase_at(phrases, i) == IF i - 1 >= Len(phrases) THEN Fallback ELSE phrases[i]

\* parse_suggestions, removal of the leading word
strip_word(word, phrase_text) ==
    IF startswith(lower(phrase_text), lower(word) \o <<" ">>)
    THEN SubSeq(phrase_text, Len(word) + 1, Len(phrase_text))
    ELSE phrase_text

\* parse_suggestions, removal of the ending period
strip_period(phrase_text) ==
    IF endswith(phrase_text, <<".">>)
    THEN SubSeq(phrase_text, 1, Len(phrase_text) - 1)
    ELSE phrase_text

\* parse_suggestions, the record appended for one word
suggestion(word, phrase_text) ==
    [word |-> word, phrase |-> strip(strip_period(strip_word(word, phrase_text)))]

\* The return statement without its slice
slice_all(seq, n) == seq

\* seq[:n]
slice_to(seq, n) == SubSeq(seq, 1, IF Len(seq) < n THEN Len(seq) ELSE n)

\* parse_suggestions
parse_suggestions(words_text, phrases_text, words) ==
    LET phrases == parsed_phrases(split(phrases_text, "\n", -1))
        all == [i \in 1..Len(words) |->
                   suggestion(words[i], phrase_at(phrases, i))]
    IN  slice_to(all, MaxSuggestions)

---------------------------------------------------------------------------
(* What the environment can send: request bodies and model responses *)

MaxWordLines == 2

MaxPhraseLines == 3

MaxListed == 11

\* Every text of 1..n lines drawn from pool, the lines joined by "\n"
Texts(pool, n) ==
    {join(<<"\n">>, ls) : ls \in UNION {[1..k -> pool] : k \in 1..n}}

\* A well-formed numbered list of n one-letter words: "1. a\n2. b\n..."
NumberedWords(n) ==
    join(<<"\n">>, [i \in 1..n |-> str(i) \o Chars(". ") \o <<LowerCase[i]>>])

\* A well-formed numbered list of n phrases, each echoing its word: "1. a A\n..."
NumberedPhrases(n) ==
    join(<<"\n">>, [i \in 1..n |->
        str(i) \o Chars(". ") \o <<LowerCase[i], " ", UpperCase[i]>>])

WordLinePool ==
    { Chars("1. fox"), Chars("2. ice cream"), Chars("7. ice\tcream"),
      <<>>, Chars("Sure:") }

WordExamples ==
    { Chars("1. fox\n2. dog\n3. cat"),
      Chars("Here are the words:\n1. fox\n\n2. dog\nv1.0 note\n   \n3. cat"),
      Chars("1. jumps"),
      Chars("1. ") \o <<"U+0130">>,
      Chars(" 1 .  fox \n2.\n.3 dog\n4 cat.\n5.e.g."),
      Chars(" \t \n ") }

WordResponses ==
    {Raises}
    \cup {Returns(t) : t \in Texts(WordLinePool, MaxWordLines) \cup WordExamples}
    \cup {Returns(NumberedWords(n)) : n \in 1..MaxListed}

PhraseLinePool ==
    { Chars("1. fox jumps high"), Chars("9. Fox runs fast."),
      Chars("3. foxes run.."), <<>>, Chars("Here you go:") }

PhraseExamples ==
    { Chars("1. fox jumps high\n2. dog runs fast\n3. cat sleeps"),
      Chars("1. Jumps over the fence."),
      Chars("1. i") \o <<"U+0307">> \o Chars(" foo"),
      Chars("1. fox .\n2. DOG  barks. \n 3 . cat"),
      Chars(" \n\t") }

PhraseResponses ==
    {Raises}
    \cup {Returns(t) : t \in Texts(PhraseLinePool, MaxPhraseLines) \cup PhraseExamples}
    \cup {Returns(NumberedPhrases(n)) : n \in 1..MaxListed}

\* Request bodies, by what request.get_json() and data.get() do with them
Bodies == {"object_with_typedText", "object_without_typedText",
           "json_not_an_object", "malformed_json"}

---------------------------------------------------------------------------
(* get_suggestions_route, one request *)

NoCalls == [words |-> 0, phrases |-> 0, parses |-> 0]

Pending == [kind |-> "pending", status |-> 0, body |-> <<>>]

\* return jsonify(x): a JSON array, HTTP 200
jsonify(x) == [kind |-> "json_array", status |-> 200, body |-> x]

\* An exception raised before the try block leaves the view function: the
\* framework answers, 400 for the BadRequest of get_json, 500 for any other
unhandled(body) ==
    [kind |-> "unhandled_exception",
     status |-> IF body = "malformed_json" THEN 400 ELSE 500,
     body |-> <<>>]

\* data = request.get_json() raises BadRequest on a body that is not JSON;
\* data.get raises AttributeError on JSON that is not an object
body_raises(body) == body \in {"json_not_an_object", "malformed_json"}

\* data.get('typedText', '')
get_typedText(body) ==
    IF body = "object_with_typedText" THEN Chars("The quick brown") ELSE <<>>

\* `if next_words is None`, which no list satisfies
no_words_is_none(words) == FALSE

\* if not next_words
no_words(words) == words = <<>>

\* if not phrase_data
no_phrase_data(d) == d = None

Init ==
    /\ pc = "idle"
    /\ typed_text = <<>>
    /\ reply = None
    /\ text = None
    /\ next_words = <<>>
    /\ phrase_data = None
    /\ suggestions = <<>>
    /\ response = Pending
    /\ calls = NoCalls

\* Lines 182-188: the body is read and typedText extracted, outside the try
ReceiveRequest ==
    /\ pc = "idle"
    /\ \E body \in Bodies :
          IF body_raises(body)
          THEN /\ pc' = "done"
               /\ response' = unhandled(body)
               /\ UNCHANGED typed_text
          ELSE /\ pc' = "fetch_words"
               /\ typed_text' = get_typedText(body)
               /\ UNCHANGED response
    /\ UNCHANGED <<reply, text, next_words, phrase_data, suggestions, calls>>

\* fetch_next_words up to model.generate_content: the model is called
CallWordModel ==
    /\ pc = "fetch_words"
    /\ \E r \in WordResponses : reply' = Some(r)
    /\ calls' = [calls EXCEPT !.words = @ + 1]
    /\ pc' = "word_model"
    /\ UNCHANGED <<typed_text, text, next_words, phrase_data, suggestions,
                   response>>

\* The model answers; _call_gemini and fetch_next_words finish
WordModelReturns ==
    /\ pc = "word_model"
    /\ text' = call_gemini(reply[1])
    /\ next_words' = fetch_next_words(text')
    /\ reply' = None
    /\ pc' = "words_fetched"
    /\ UNCHANGED <<typed_text, phrase_data, suggestions, response, calls>>

\* Lines 193-198: no words, the empty array is returned
NoWords ==
    /\ pc = "words_fetched"
    /\ no_words(next_words)
    /\ response' = jsonify(<<>>)
    /\ pc' = "done"
    /\ UNCHANGED <<typed_text, reply, text, next_words, phrase_data,
                   suggestions, calls>>

\* fetch_next_phrases up to model.generate_content: the model is called
CallPhraseModel ==
    /\ pc = "words_fetched"
    /\ ~no_words(next_words)
    /\ \E r \in PhraseResponses : reply' = Some(r)
    /\ text' = None
    /\ calls' = [calls EXCEPT !.phrases = @ + 1]
    /\ pc' = "phrase_model"
    /\ UNCHANGED <<typed_text, next_words, phrase_data, suggestions, response>>

\* The model answers; _call_gemini and fetch_next_phrases finish
PhraseModelReturns ==
    /\ pc = "phrase_model"
    /\ text' = call_gemini(reply[1])
    /\ phrase_data' = fetch_next_phrases(next_words, text')
    /\ reply' = None
    /\ pc' = "phrases_fetched"
    /\ UNCHANGED <<typed_text, next_words, suggestions, response, calls>>

\* Lines 202-207: no phrase data, the empty array is returned
NoPhrases ==
    /\ pc = "phrases_fetched"
    /\ no_phrase_data(phrase_data)
    /\ response' = jsonify(<<>>)
    /\ pc' = "done"
    /\ UNCHANGED <<typed_text, reply, text, next_words, phrase_data,
                   suggestions, calls>>

\* Lines 210-213: the suggestions are parsed and returned
ParseAndRespond ==
    /\ pc = "phrases_fetched"
    /\ ~no_phrase_data(phrase_data)
    /\ suggestions' = parse_suggestions(phrase_data[1].words_text,
                                        phrase_data[1].phrases_text, next_words)
    /\ calls' = [calls EXCEPT !.parses = @ + 1]
    /\ response' = jsonify(suggestions')
    /\ pc' = "done"
    /\ UNCHANGED <<typed_text, reply, text, next_words, phrase_data>>

\* Lines 215-217, the except clause, have no step: with the strings and lists
\* above no statement between lines 190 and 213 raises (the two fetch
\* functions catch their own exceptions, parse_suggestions indexes within
\* bounds), so the clause is never entered.
Next ==
    \/ ReceiveRequest
    \/ CallWordModel
    \/ WordModelReturns
    \/ NoWords
    \/ CallPhraseModel
    \/ PhraseModelReturns
    \/ NoPhrases
    \/ ParseAndRespond

Spec == Init /\ [][Next]_vars

---------------------------------------------------------------------------
(* Vocabulary of the properties *)

Fox == Chars("fox")

Dog == Chars("dog")

Cat == Chars("cat")

Smaller(a, b) == IF a < b THEN a ELSE b

\* The handler has answered
Done == pc = "done"

\* parse_suggestions has run and its result was returned
Parsed == pc = "done" /\ calls.parses = 1

\* The numbered-list rule as the specification words it: the trimmed text
\* after the first "." of every non-blank line whose trimmed text before the
\* first "." is entirely digits, in line order
NumberedEntries(t) ==
    LET FirstDot(l) == SetMin({i \in 1..Len(l) : l[i] = "."})
        Numbered(l) ==
            LET s == strip(l)
            IN  /\ s # <<>>
                /\ \E i \in 1..Len(s) : s[i] = "."
                /\ isdigit(strip(SubSeq(s, 1, FirstDot(s) - 1)))
        Content(l) ==
            LET s == strip(l) IN strip(SubSeq(s, FirstDot(s) + 1, Len(s)))
        kept == SelectSeq(split(t, "\n", -1), Numbered)
    IN  [k \in 1..Len(kept) |-> Content(kept[k])]

\* The cleanup as the specification words it: the leading echo of the word and
\* its space removed when the phrase begins with them case-insensitively, then
\* one trailing period removed, then trimmed
CleanedPhrase(w, p) ==
    LET echo == lower(w) \o <<" ">>
        rest == IF startswith(lower(p), echo)
                THEN LET k == CHOOSE k \in 1..Len(p) :
                                  lower(SubSeq(p, 1, k)) = echo
                     IN  SubSeq(p, k + 1, Len(p))
                ELSE p
        cut  == IF rest # <<>> /\ rest[Len(rest)] = "."
                THEN SubSeq(rest, 1, Len(rest) - 1)
                ELSE rest
    IN  strip(cut)

---------------------------------------------------------------------------
(* C1 *)

\* C1: every word with no corresponding parsed phrase is returned with the
\* phrase "..." (three periods), after the cleanup steps.
C1_PaddingIsThreePeriods ==
    Parsed =>
        \A i \in 1..Len(suggestions) :
            i > Len(NumberedEntries(phrase_data[1].phrases_text))
                => suggestions[i].phrase = Chars("...")

---------------------------------------------------------------------------
(* C2 *)

\* C2: every request ends in a JSON array with HTTP 200 or in the JSON error
\* object with HTTP 500 of the handler's except clause; nothing escapes the
\* handler, reading the body and extracting typedText included.
C2_AlwaysArrayOrErrorObject ==
    Done =>
        \/ response.kind = "json_array" /\ response.status = 200
        \/ response.kind = "json_error" /\ response.status = 500

---------------------------------------------------------------------------
(* C3 *)

\* C3: when fetch_next_words returns the empty list (the call failed, the text
\* was empty, or every line was filtered out) the answer is the empty array
\* with HTTP 200 and the phrase model is never called; a phrase call happens
\* only after a word call that returned a non-empty list.
C3_NoWordsNoPhraseCall ==
    /\ (pc = "words_fetched" /\ falsy(text)) => next_words = <<>>
    /\ (pc = "words_fetched" /\ next_words = <<>>)
          => ENABLED NoWords /\ ~ENABLED CallPhraseModel
    /\ (Done /\ calls.words = 1 /\ next_words = <<>>)
          => response = jsonify(<<>>) /\ calls.phrases = 0
    /\ calls.phrases > 0 => calls.words = 1 /\ next_words # <<>>

\* A run in which the model answered with lines that were all filtered out
C3_Witness ==
    /\ Done
    /\ calls.words = 1
    /\ text = Some(Chars("2. ice cream\nSure:"))
    /\ next_words = <<>>
    /\ response = jsonify(<<>>)

---------------------------------------------------------------------------
(* C4 *)

\* C4: with a non-empty word list the phrase model is called exactly once; if
\* the call raises or returns empty text, fetch_next_phrases returns None, the
\* answer is the empty array with HTTP 200, there is no second call and
\* parse_suggestions does not run.
C4_PhraseFailureIsNotSalvaged ==
    /\ calls.phrases <= 1
    /\ (Done /\ next_words # <<>>) => calls.phrases = 1
    /\ (pc \in {"phrases_fetched", "done"} /\ calls.phrases = 1 /\ falsy(text))
          => phrase_data = None
    /\ (pc = "phrases_fetched" /\ falsy(text))
          => ENABLED NoPhrases /\ ~ENABLED ParseAndRespond
    /\ (Done /\ calls.phrases = 1 /\ falsy(text))
          => /\ response = jsonify(<<>>)
             /\ calls.parses = 0
             /\ suggestions = <<>>

\* A run in which the phrase model returned empty text for three words
C4_Witness ==
    /\ Done
    /\ next_words = <<Fox, Dog, Cat>>
    /\ calls.phrases = 1
    /\ text = Some(<<>>)
    /\ response = jsonify(<<>>)

---------------------------------------------------------------------------
(* C5 *)

\* C5: every element of the list fetch_next_words returns is non-empty and
\* contains no whitespace character of any kind.
C5_WordsHaveNoWhitespace ==
    \A i \in 1..Len(next_words) :
        /\ next_words[i] # <<>>
        /\ \A j \in 1..Len(next_words[i]) : next_words[i][j] \notin Whitespace

---------------------------------------------------------------------------
(* C6 *)

\* C6: the list fetch_next_words returns, which is passed on to
\* fetch_next_phrases and parse_suggestions, has at most 10 elements.
C6_AtMostTenWords == Len(next_words) <= 10

---------------------------------------------------------------------------
(* C7 *)

\* C7: parse_suggestions returns, for any phrases text and any word list, a
\* sequence of {word, phrase} records of length at most min(10, len(words)),
\* so the endpoint never returns more than 10 suggestions.
C7_ParseIsTotalAndBounded ==
    /\ Parsed =>
          /\ Len(suggestions) <= Smaller(10, Len(next_words))
          /\ \A i \in 1..Len(suggestions) :
                DOMAIN suggestions[i] = {"word", "phrase"}
          /\ response = jsonify(suggestions)
    /\ response.kind = "json_array" => Len(response.body) <= 10

\* Eleven words were proposed and phrased, and ten suggestions returned
C7_Witness ==
    /\ Parsed
    /\ Len(next_words) = 11
    /\ Len(NumberedEntries(phrase_data[1].phrases_text)) = 11
    /\ Len(response.body) = 10

---------------------------------------------------------------------------
(* C8 *)

\* C8: each emitted phrase is the parsed phrase with the leading echo of its
\* word and the following space removed when the phrase begins with them
\* case-insensitively, then one trailing period removed, then trimmed; the
\* two worked examples of the specification come out as it says.
C8_CleanupRemovesEchoAndPeriod ==
    Parsed =>
        LET entries == NumberedEntries(phrase_data[1].phrases_text)
        IN  /\ \A i \in 1..Len(suggestions) :
                  i <= Len(entries) =>
                      suggestions[i].phrase = CleanedPhrase(next_words[i], entries[i])
            /\ (/\ next_words = <<Chars("jumps")>>
                /\ phrase_data[1].phrases_text = Chars("1. Jumps over the fence."))
                  => suggestions[1].phrase = Chars("over the fence")
            /\ (/\ next_words = <<Fox, Dog, Cat>>
                /\ phrase_data[1].phrases_text =
                      Chars("1. fox jumps high\n2. dog runs fast\n3. cat sleeps"))
                  => /\ suggestions[1].phrase = Chars("jumps high")
                     /\ suggestions[2].phrase = Chars("runs fast")
                     /\ suggestions[3].phrase = Chars("sleeps")

---------------------------------------------------------------------------
(* C9 *)

\* C9: both copies of the numbered-list parsing yield, for any text, exactly
\* the entries of the rule (NumberedEntries) in line order; blank lines and
\* lines without digits and a period add nothing and shift nothing, so "cat"
\* of "3. cat" is the third entry whatever such lines surround it.
C9_NumberedListParsing ==
    /\ (pc = "words_fetched" /\ ~falsy(text)) =>
          LET lines == split(text[1], "\n", -1)
          IN  /\ parsed_words(lines) = NumberedEntries(text[1])
              /\ parsed_phrases(lines) = parsed_words(lines)
              /\ next_words = SelectSeq(NumberedEntries(text[1]), single_word)
    /\ Parsed =>
          LET lines == split(phrase_data[1].phrases_text, "\n", -1)
          IN  /\ parsed_phrases(lines) = NumberedEntries(phrase_data[1].phrases_text)
              /\ parsed_words(lines) = parsed_phrases(lines)

\* The three-word list came back interleaved with prose and blank lines
C9_Witness ==
    /\ pc = "words_fetched"
    /\ text = Some(Chars("Here are the words:\n1. fox\n\n2. dog\nv1.0 note\n   \n3. cat"))
    /\ Len(split(text[1], "\n", -1)) = 7
    /\ next_words[3] = Cat

---------------------------------------------------------------------------
(* C10 *)

\* C10: the i-th suggestion carries the i-th word unchanged and a phrase made
\* from the i-th parsed line of the phrases text alone (the placeholder when
\* there is none), whatever number that line bears and whatever words_text
\* is; with more than 10 words the output is that of the first 10.
C10_PositionalPairing ==
    Parsed =>
        LET entries == NumberedEntries(phrase_data[1].phrases_text)
        IN  /\ Len(suggestions) = Smaller(10, Len(next_words))
            /\ \A i \in 1..Len(suggestions) :
                  /\ suggestions[i].word = next_words[i]
                  /\ suggestions[i].phrase =
                        suggestion(next_words[i],
                                   IF i <= Len(entries) THEN entries[i]
                                   ELSE Chars("...")).phrase
            /\ \A wt \in {<<>>, phrase_data[1].phrases_text, NumberedWords(2)} :
                  parse_suggestions(wt, phrase_data[1].phrases_text, next_words)
                      = suggestions

\* The first parsed line bears the number 9 and is paired with the first word
C10_Witness ==
    /\ Parsed
    /\ next_words = <<Fox, Chars("ice\tcream")>>
    /\ phrase_data[1].phrases_text = Chars("9. Fox runs fast.\n\n1. fox jumps high")
    /\ suggestions[1] = [word |-> Fox, phrase |-> Chars("runs fast")]
    /\ suggestions[2].phrase = Chars("fox jumps high")

===========================================================================
